---- MODULE Spec2Model ----
(***************************************************************************)
(* Whoten Sovereign (src/main.py): the in-memory log ring, the three core  *)
(* tasks with their collaborators, and the two scheduler runners.          *)
(*                                                                         *)
(* Six specifications share the variables below:                           *)
(*   SpecLog   - log() executed statement by statement by several threads  *)
(*   Spec      - the tasks, one invocation after another, every            *)
(*               collaborator call one step                                *)
(*   SpecSync  - shopify_sync alone, called by its scheduler thread        *)
(*   SpecRace  - a scheduler thread and an HTTP handler thread inside the  *)
(*               same task at the same time                                *)
(*   SpecWeb   - the routes and the session gate, request by request       *)
(*   SpecSched - one runner thread, every() or run_daily_at(), with time   *)
(***************************************************************************)
EXTENDS Integers, Sequences, FiniteSets, TLC

\* ------------------------------------------------------------------------
\* Program constants
\* ------------------------------------------------------------------------
LOG_MAX == 1000

\* ------------------------------------------------------------------------
\* Bounds of the model
\* ------------------------------------------------------------------------
NumLoggers == 3      \* threads inside log() at the same time (SpecLog)
MaxLogCalls == 3     \* log() calls started in a behaviour of SpecLog

MaxInvocations == 2  \* task invocations started in a behaviour of Spec
MaxPrintFaults == 1  \* print calls that raise in a behaviour
MaxRunnerCalls == 2  \* calls of its task by the runner of SpecSched
MaxRequests == 3     \* HTTP requests received in a behaviour of SpecWeb

\* Settings tried in SpecSched: SYNC_INTERVAL_HOURS, the pair
\* (REPORT_HOUR_LOCAL, REPORT_MIN_LOCAL), and the time of day at which the
\* process starts, in seconds.
IntervalHours == {-1, 0, 1}
ReportTimes == {<<15, 0>>, <<0, 0>>, <<23, 59>>}
StartTimes == {10 * 3600, 15 * 3600, 16 * 3600, 23 * 3600 + 59 * 60 + 45}

Loggers == 1..NumLoggers

\* SpecWeb: the browsers that send requests, each with its own session
\* cookie, and the values of the form field 'pin' they post to /login (None:
\* the field is missing).  A string is a sequence of characters.
Browsers == {"a", "b"}
DASHBOARD_PIN == <<"5", "6", "3", "1">>
PinFields == {<<"5", "6", "3", "1">>, <<" ", "5", "6", "3", "1", " ">>,
              <<"5", "6", "3">>, <<" ">>, <<"None">>}

\* The values of a last-run timestamp: None, or the datetime read at clock
\* reading t.
None == <<>>
Datetime(t) == <<t>>
Tasks == {"sync", "scan", "report"}
\* The threads that call a task: a scheduler runner (lines 268, 293) and a
\* request handler (lines 466, 472, 478).
Callers == {"runner", "handler"}

\* History of a call of Notifier.send: what became of the text (accepted,
\* rejected: a status other than 200, transport: the post raised, fallback:
\* the notifier is not enabled), the level of the entry the call appended
\* last, and whether the call raised.
NoSend == [case |-> "None", level |-> "None", raised |-> FALSE]

\* The state of a caller that is not inside a task.  before, frame, errors,
\* wrote, peer, sent, failed and handled are history of the invocation: the
\* task's timestamp and the three timestamps when it began, the ERROR entries
\* it appended, the value it stored, whether the other caller was inside the
\* same task meanwhile, its latest call of Notifier.send, the upserts that
\* returned None, and whether the except block of the task was entered.
IdleInvocation ==
    [pc |-> "idle", task |-> "None", i |-> 0, created |-> 0, items |-> 0,
     now |-> 0, site |-> "None", result |-> "None",
     before |-> None, frame |-> [t \in Tasks |-> None],
     errors |-> 0, wrote |-> None, peer |-> FALSE, sent |-> NoSend,
     failed |-> 0, handled |-> FALSE]

VARIABLES
    LOGS,        \* the list LOGS
    appended,    \* SpecLog history: every entry appended to LOGS, in order
    lpc,         \* SpecLog: position of each thread inside log()
    ln,          \* SpecLog: the evaluated slice bound len(LOGS) - LOG_MAX
    lcalls,      \* SpecLog: number of log() calls started
    overlapped,  \* history: some log() call started while another was running
    _last_sync,  \* the global _last_sync: None or a reading of the clock
    _last_scan,  \* the global _last_scan
    _last_report,\* the global _last_report
    faults,      \* environment: number of print calls that have raised
    clock,       \* environment: the latest reading of datetime.now()
    notifier_enabled,   \* Notifier.enabled(): bot token and chat id are set
    shopify_ok,         \* ShopifyClient.ok(): shop domain and token are set
    CURRENCY_DECIMALS,  \* the setting CURRENCY_DECIMALS
    inv,         \* Spec: the task invocation of each calling thread
    ninv,        \* Spec: number of invocations started
    lastwriter,  \* history: per task, the caller that stored its timestamp last
    lastret,     \* history: the caller whose invocation ended last
    _stop_flag,  \* the global _stop_flag
    wall,        \* environment: local wall-clock time, seconds since midnight of day 0
    run,         \* SpecSched: the scheduler thread, every() or run_daily_at()
    session,     \* SpecWeb: the Flask session of each browser, as its set of keys
    entitled,    \* SpecWeb history: the browsers whose last POST /login with
                 \* the PIN was followed by no GET /logout
    req,         \* SpecWeb history: the latest request and its outcome
    nreq         \* SpecWeb: number of requests received

logstate == <<LOGS, appended>>
loggervars == <<lpc, ln, lcalls, overlapped>>
lastvars == <<_last_sync, _last_scan, _last_report>>
cfgvars == <<notifier_enabled, shopify_ok, CURRENCY_DECIMALS>>
taskvars == <<inv, ninv, lastwriter, lastret>>
schedvars == <<_stop_flag, wall, run>>
webvars == <<session, entitled, req, nreq>>
notlogger == <<lastvars, faults, clock, cfgvars, webvars, taskvars, schedvars>>
vars == <<LOGS, appended, lpc, ln, lcalls, overlapped,
          _last_sync, _last_scan, _last_report, faults, clock,
          notifier_enabled, shopify_ok, CURRENCY_DECIMALS,
          inv, ninv, lastwriter, lastret, _stop_flag, wall, run,
          session, entitled, req, nreq>>

Min(a, b) == IF a < b THEN a ELSE b
Max(a, b) == IF a > b THEN a ELSE b

\* The last n elements of s.
LastN(s, n) == SubSeq(s, Len(s) - n + 1, Len(s))

\* ------------------------------------------------------------------------
\* log(), src/main.py 93-104
\* ------------------------------------------------------------------------
\* The dict built at lines 94-100, without its time stamp and its data.
NewEntry(level, msg) == [level |-> level, msg |-> msg]

\* del s[:n] with Python's slice rules: a negative bound counts from the end,
\* a bound beyond either end is clipped.
PySliceDelNewest(s, n) == SubSeq(s, 1, Len(s) - Min(Max(n, 0), Len(s)))
PySliceDel(s, n) ==
    LET stop == IF n < 0 THEN Max(Len(s) + n, 0) ELSE Min(n, Len(s))
    IN  SubSeq(s, stop + 1, Len(s))

\* Lines 101-103 run without interruption.
LogAppendTrim(s, e) ==
    LET a == Append(s, e)
    IN  IF Len(a) > LOG_MAX THEN PySliceDel(a, Len(a) - LOG_MAX) ELSE a

\* -- SpecLog: the statements of log() as separate steps of a thread ------
\* Lines 94-101: the entry is built from the arguments, which no other
\* thread sees, and LOGS.append(entry).  The threads are interchangeable, so
\* a new call is given to the first thread that is free.
LogAppend(t) ==
    /\ UNCHANGED notlogger
    /\ lpc[t] = "idle"
    /\ \A u \in Loggers : u < t => lpc[u] # "idle"
    /\ lcalls < MaxLogCalls
    /\ LET entry == NewEntry("INFO", Len(appended) + 1)
       IN  /\ LOGS' = Append(LOGS, entry)
           /\ appended' = Append(appended, entry)
    /\ lcalls' = lcalls + 1
    /\ lpc' = [lpc EXCEPT ![t] = "test"]
    /\ overlapped' = (overlapped \/ \E u \in Loggers : lpc[u] # "idle")
    /\ UNCHANGED ln

\* Line 102: if len(LOGS) > LOG_MAX
LogTest(t) ==
    /\ UNCHANGED notlogger
    /\ lpc[t] = "test"
    /\ lpc' = [lpc EXCEPT ![t] = IF Len(LOGS) > LOG_MAX THEN "bound" ELSE "print"]
    /\ UNCHANGED <<LOGS, appended, lcalls, ln, overlapped>>

\* Line 103, the slice bound: len(LOGS) - LOG_MAX
LogBound(t) ==
    /\ UNCHANGED notlogger
    /\ lpc[t] = "bound"
    /\ ln' = [ln EXCEPT ![t] = Len(LOGS) - LOG_MAX]
    /\ lpc' = [lpc EXCEPT ![t] = "del"]
    /\ UNCHANGED <<LOGS, appended, lcalls, overlapped>>

\* Line 103, the deletion: del LOGS[: bound]
LogDel(t) ==
    /\ UNCHANGED notlogger
    /\ lpc[t] = "del"
    /\ LOGS' = PySliceDel(LOGS, ln[t])
    /\ lpc' = [lpc EXCEPT ![t] = "print"]
    /\ UNCHANGED <<appended, lcalls, ln, overlapped>>

\* Line 104: print, and the call returns.
LogPrint(t) ==
    /\ UNCHANGED notlogger
    /\ lpc[t] = "print"
    /\ lpc' = [lpc EXCEPT ![t] = "idle"]
    /\ UNCHANGED <<LOGS, appended, lcalls, ln, overlapped>>

\* No thread is inside log().
InitLoggers ==
    /\ lcalls = 0
    /\ lpc = [t \in Loggers |-> "idle"]
    /\ ln = [t \in Loggers |-> 0]
    /\ overlapped = FALSE

\* Lines 180-182 and the environment at start.
InitGlobals ==
    /\ _last_sync = None
    /\ _last_scan = None
    /\ _last_report = None
    /\ faults = 0
    /\ clock = 0

\* Lines 65-81: the settings read from the environment.  A negative
\* CURRENCY_DECIMALS is accepted by _as_int.
InitConfig ==
    /\ notifier_enabled \in BOOLEAN
    /\ shopify_ok \in BOOLEAN
    /\ CURRENCY_DECIMALS \in {-1, 2}

\* The defaults of lines 65-81: no Shopify credentials, no Telegram token,
\* CURRENCY_DECIMALS = 2.
InitDefaults ==
    /\ notifier_enabled = FALSE
    /\ shopify_ok = FALSE
    /\ CURRENCY_DECIMALS = 2

\* No task is being invoked.
InitCallers ==
    /\ inv = [c \in Callers |-> IdleInvocation]
    /\ ninv = 0
    /\ lastwriter = [t \in Tasks |-> "None"]
    /\ lastret = "None"

\* A runner thread before its first statement.  k is the index of the for
\* loop of every(); slept, calls, stopat, callsAtStop, late, lateSecs, post
\* and fired are history: the seconds slept since the last call of the task
\* ended, the calls of the task, the position and the number of calls when
\* _stop_flag became true, the sleeps begun before and ended after that
\* moment or begun after it, their seconds, the steps taken after it, and
\* the next_run for which run_daily_at() called the task last.
NewRunner(kind, name, hours, hour, minute) ==
    [kind |-> kind, name |-> name, pc |-> "start",
     hours |-> hours, secs |-> 0, k |-> 0,
     hour |-> hour, minute |-> minute, now |-> 0, next_run |-> 0,
     sleep_seconds |-> 0,
     slept |-> 0, calls |-> 0, stopat |-> "None", callsAtStop |-> 0,
     late |-> 0, lateSecs |-> 0, post |-> 0, fired |-> 0]

\* Line 260, and no runner thread.
InitNoRunner ==
    /\ _stop_flag = FALSE
    /\ wall = 0
    /\ run = NewRunner("None", "None", 0, 0, 0)

\* No request has been received: every session is empty.
NoRequest ==
    [s |-> "None", route |-> "None", field |-> <<>>, auth |-> FALSE,
     outcome |-> "None", frame |-> [t \in Tasks |-> None], ninv |-> 0]
InitNoRequests ==
    /\ session = [b \in Browsers |-> {}]
    /\ entitled = {}
    /\ req = NoRequest
    /\ nreq = 0

\* The buffer after n log() calls made one after another.
Prefilled(n) == [i \in 1..n |-> NewEntry("INFO", i)]

\* SpecLog starts with the buffer as it is after 0, LOG_MAX - 1 or LOG_MAX
\* calls of log() made one after another.
InitLog ==
    /\ \E n \in {0, LOG_MAX - 1, LOG_MAX} :
          /\ LOGS = Prefilled(n)
          /\ appended = Prefilled(n)
    /\ InitLoggers
    /\ InitGlobals
    /\ InitDefaults
    /\ InitCallers
    /\ InitNoRequests
    /\ InitNoRunner

NextLog ==
    \E t \in Loggers :
        \/ LogAppend(t)
        \/ LogTest(t)
        \/ LogBound(t)
        \/ LogDel(t)
        \/ LogPrint(t)

SpecLog == InitLog /\ [][NextLog]_vars

LogIdle == \A t \in Loggers : lpc[t] = "idle"

\* C1: in every reachable state the length of LOGS is at most LOG_MAX.
C1_LogBounded == Len(LOGS) <= LOG_MAX

\* C2: after N log() calls made one after another the buffer holds exactly
\* the last min(N, LOG_MAX) appended entries, in the order of their insertion.
C2_SequentialFifo ==
    (LogIdle /\ ~overlapped) =>
        LOGS = LastN(appended, Min(Len(appended), LOG_MAX))

C2_Witness ==
    /\ LogIdle
    /\ ~overlapped
    /\ lcalls >= 2
    /\ Len(appended) > LOG_MAX
    /\ Len(LOGS) = LOG_MAX

\* C18: under every interleaving of the statements of concurrent log() calls
\* the newest min(N, LOG_MAX) of the N entries appended so far are in the
\* buffer, and when no call is in progress and N >= LOG_MAX the buffer holds
\* exactly LOG_MAX entries.
C18_NoEarlyEviction ==
    LET keep == Min(Len(appended), LOG_MAX)
    IN  /\ Len(LOGS) >= keep
        /\ LastN(LOGS, keep) = LastN(appended, keep)
        /\ (LogIdle /\ Len(appended) >= LOG_MAX) => Len(LOGS) = LOG_MAX

\* ------------------------------------------------------------------------
\* Spec: the core tasks and their collaborators, src/main.py 109-255
\* ------------------------------------------------------------------------
\* A call of log() made as one step of a task: the entry is appended and the
\* buffer trimmed (lines 94-103); the print of line 104 then returns (ok) or
\* raises: sys.stdout is closed or full, or cannot encode the text.
Printed(ok) ==
    /\ ok \/ faults < MaxPrintFaults
    /\ faults' = IF ok THEN faults ELSE faults + 1

LogOne(level, msg) ==
    /\ LOGS' = LogAppendTrim(LOGS, NewEntry(level, msg))
    /\ UNCHANGED appended

LastOf(task) ==
    CASE task = "sync" -> _last_sync
      [] task = "scan" -> _last_scan
      [] task = "report" -> _last_report

\* The assignments of lines 220, 236 and 250.
StoreLastIfUnset(task, v) ==
    /\ _last_sync' = IF task = "sync" /\ _last_sync = None THEN v ELSE _last_sync
    /\ _last_scan' = IF task = "scan" /\ _last_scan = None THEN v ELSE _last_scan
    /\ _last_report' = IF task = "report" /\ _last_report = None THEN v ELSE _last_report
StoreLast(task, v) ==
    /\ _last_sync' = IF task = "sync" THEN v ELSE _last_sync
    /\ _last_scan' = IF task = "scan" THEN v ELSE _last_scan
    /\ _last_report' = IF task = "report" THEN v ELSE _last_report

Other(c) == CHOOSE d \in Callers : d # c
Running(c) == inv[c].pc \notin {"idle", "done"}
Done(c) == inv[c].pc = "done"

\* r after appending an entry of the given level.
Counted(r, level) ==
    [r EXCEPT !.errors = IF level = "ERROR" THEN @ + 1 ELSE @]

\* r continuing at tgt[1]; tgt = <<"done", result>> ends the invocation and
\* its locals i, items, now and site.
Go(r, tgt) ==
    IF tgt[1] = "done"
    THEN [r EXCEPT !.pc = "done", !.result = tgt[2],
                   !.i = 0, !.items = 0, !.now = 0, !.site = "None"]
    ELSE [r EXCEPT !.pc = tgt[1]]

\* The caller's position changes to tgt.
Move(c, r, tgt) ==
    /\ inv' = [inv EXCEPT ![c] = Go(r, tgt)]
    /\ lastret' = IF tgt[1] = "done" THEN c ELSE lastret

\* A step that is one call of log(): it continues at onOk when the call
\* returns and at onRaise when its print raises.
\* rOk and rRaise are the caller's locals in the two cases.
LogStepWith(c, at, level, msg, rOk, onOk, rRaise, onRaise) ==
    /\ inv[c].pc = at
    /\ LogOne(level, msg)
    /\ \E ok \in BOOLEAN :
          /\ Printed(ok)
          /\ IF ok THEN Move(c, Counted(rOk, level), onOk)
                   ELSE Move(c, Counted(rRaise, level), onRaise)
    /\ UNCHANGED <<loggervars, lastvars, clock, cfgvars, webvars, ninv, lastwriter, schedvars>>

LogStep(c, at, level, msg, onOk, onRaise) ==
    LogStepWith(c, at, level, msg, inv[c], onOk, inv[c], onRaise)

\* The first statement of a task, by task.
FirstPc(task) ==
    CASE task = "sync" -> "s201"
      [] task = "scan" -> "m231"
      [] task = "report" -> "d244"

\* The callers' records when c begins to execute task: c starts at the first
\* statement with fresh locals; the record of a caller whose invocation has
\* ended is dropped.
Begun(c, task) ==
    LET together == Running(Other(c)) /\ inv[Other(c)].task = task
    IN  [d \in Callers |->
            IF d = c
            THEN [IdleInvocation EXCEPT !.pc = FirstPc(task), !.task = task,
                                        !.before = LastOf(task),
                                        !.frame = [t \in Tasks |-> LastOf(t)],
                                        !.peer = together]
            ELSE IF Running(d) THEN [inv[d] EXCEPT !.peer = @ \/ together]
            ELSE IdleInvocation]

\* A caller calls a task while no other call is in progress: fn() at lines
\* 268 and 293, the trigger routes at lines 466, 472 and 478.
Invoke(c, task) ==
    /\ ~Running(c)
    /\ ~Running(Other(c))
    /\ ninv < MaxInvocations
    /\ ninv' = ninv + 1
    /\ inv' = Begun(c, task)
    /\ UNCHANGED <<logstate, loggervars, lastvars, faults, clock, cfgvars, webvars,
                   lastwriter, lastret, schedvars>>

\* SpecRace: each caller calls once, and both call the same task, so that a
\* scheduled run and a manual trigger of one task can overlap.
InvokeOverlapping(c, task) ==
    /\ inv[c].pc = "idle"
    /\ ninv < Cardinality(Callers)
    /\ inv[Other(c)].task \in {"None", task}
    /\ ninv' = ninv + 1
    /\ inv' = Begun(c, task)
    /\ UNCHANGED <<logstate, loggervars, lastvars, faults, clock, cfgvars, webvars,
                   lastwriter, lastret, schedvars>>

\* -- Notifier.send, lines 117-127 -----------------------------------------
\* Where a call of notifier.send made at 'site' continues when it returns
\* and when it raises.
SendReturns(site) ==
    CASE site = "s223" -> <<"done", "ok_true">>
      [] site = "s227" -> <<"done", "ok_false">>
      [] site = "d249" -> <<"d250", "">>
SendRaises(site) ==
    CASE site = "s223" -> <<"s226", "">>
      [] site = "s227" -> <<"done", "raised">>
      [] site = "d249" -> <<"d254", "">>

\* Line 127: the notifier is not enabled, the text goes to the log.
SendFallback(c) ==
    /\ ~notifier_enabled
    /\ LogStepWith(c, "send", "NOTICE", "NOTICE: text",
                   [inv[c] EXCEPT !.sent = [case |-> "fallback", level |-> "NOTICE",
                                            raised |-> FALSE]],
                   SendReturns(inv[c].site),
                   [inv[c] EXCEPT !.sent = [case |-> "fallback", level |-> "NOTICE",
                                            raised |-> TRUE]],
                   SendRaises(inv[c].site))

\* Lines 119-122: the post returns 200.
SendPosted(c) ==
    /\ inv[c].pc = "send"
    /\ notifier_enabled
    /\ Move(c, [inv[c] EXCEPT !.sent = [NoSend EXCEPT !.case = "accepted"]],
            SendReturns(inv[c].site))
    /\ UNCHANGED <<logstate, loggervars, lastvars, faults, clock, cfgvars, webvars,
                   ninv, lastwriter, schedvars>>

\* Lines 122-123: the post returns another status; the log() call is inside
\* the try, so its exception is handled at line 124.
SendRejected(c) ==
    /\ notifier_enabled
    /\ LET r == [inv[c] EXCEPT !.sent = [case |-> "rejected", level |-> "WARN",
                                         raised |-> FALSE]]
       IN  LogStepWith(c, "send", "WARN", "Telegram send failed",
                       r, SendReturns(inv[c].site), r, <<"n125", "">>)

\* Lines 121, 124: the post raises.
SendPostRaises(c) ==
    /\ inv[c].pc = "send"
    /\ notifier_enabled
    /\ Move(c, [inv[c] EXCEPT !.sent = [NoSend EXCEPT !.case = "transport"]],
            <<"n125", "">>)
    /\ UNCHANGED <<logstate, loggervars, lastvars, faults, clock, cfgvars, webvars,
                   ninv, lastwriter, schedvars>>

\* Line 125: the handler of send.
SendExcept(c) ==
    LogStepWith(c, "n125", "ERROR", "Telegram exception",
                [inv[c] EXCEPT !.sent.level = "ERROR"],
                SendReturns(inv[c].site),
                [inv[c] EXCEPT !.sent.level = "ERROR", !.sent.raised = TRUE],
                SendRaises(inv[c].site))

NotifierSend(c) ==
    \/ SendFallback(c)
    \/ SendPosted(c)
    \/ SendRejected(c)
    \/ SendPostRaises(c)
    \/ SendExcept(c)

\* -- shopify_sync with supplier_scan and create_or_update_product ---------
\* Number of items of the sample returned by supplier_scan (lines 189-192).
SampleItems == 2

FrameOfStep == <<logstate, loggervars, lastvars, faults, clock, cfgvars, webvars,
                 ninv, lastwriter, schedvars>>

\* Line 201, before the try.
SyncStarted(c) ==
    LogStep(c, "s201", "INFO", "Shopify sync started",
            <<"s186", "">>, <<"done", "raised">>)

\* Lines 204, 186: supplier_scan logs before its own try.
ScanStarted(c) ==
    LogStep(c, "s186", "INFO", "Supplier scan started",
            <<"s194", "">>, <<"s226", "">>)

\* Lines 189-195: the sample is built and returned.
ScanCompleted(c) ==
    LogStepWith(c, "s194", "INFO", "Supplier scan completed",
                [inv[c] EXCEPT !.items = SampleItems], <<"s206", "">>,
                inv[c], <<"s197", "">>)

\* Lines 196-198: the handler of supplier_scan returns [].
ScanError(c) ==
    LogStep(c, "s197", "ERROR", "Supplier scan error",
            <<"s206", "">>, <<"s226", "">>)

\* Lines 206-216: the loop head and the payload of the next item.  The
\* format of line 212 raises ValueError for a negative precision.
SyncNextItemStrict(c) ==
    /\ inv[c].pc = "s206"
    /\ Move(c, inv[c],
            IF inv[c].failed > 0 THEN <<"s226", "">>
            ELSE IF inv[c].i >= inv[c].items THEN <<"s220", "">>
            ELSE IF CURRENCY_DECIMALS < 0 THEN <<"s226", "">>
            ELSE <<"s217", "">>)
    /\ UNCHANGED FrameOfStep
SyncNextItem(c) ==
    /\ inv[c].pc = "s206"
    /\ Move(c, inv[c],
            IF inv[c].i >= inv[c].items THEN <<"s220", "">>
            ELSE IF CURRENCY_DECIMALS < 0 THEN <<"s226", "">>
            ELSE <<"s217", "">>)
    /\ UNCHANGED FrameOfStep

\* Lines 162-164: no credentials, the upsert is skipped and returns None.
UpsertSkipped(c) ==
    /\ ~shopify_ok
    /\ LogStepWith(c, "s217", "WARN", "Shopify creds missing; skipping upsert",
                   [inv[c] EXCEPT !.i = @ + 1, !.failed = @ + 1], <<"s206", "">>,
                   inv[c], <<"s226", "">>)

\* Lines 166-168, 218-219: the post returns 200 or 201 with a product.
UpsertCreated(c) ==
    /\ inv[c].pc = "s217"
    /\ shopify_ok
    /\ Move(c, [inv[c] EXCEPT !.i = @ + 1, !.created = @ + 1], <<"s206", "">>)
    /\ UNCHANGED FrameOfStep

\* Lines 169-170, 173: another status; the log() call is inside the try.
UpsertRejected(c) ==
    /\ shopify_ok
    /\ LogStepWith(c, "s217", "WARN", "Shopify create product failed",
                   [inv[c] EXCEPT !.i = @ + 1, !.failed = @ + 1], <<"s206", "">>,
                   inv[c], <<"s172", "">>)

\* Lines 166, 171: the post raises.
UpsertPostRaises(c) ==
    /\ inv[c].pc = "s217"
    /\ shopify_ok
    /\ Move(c, inv[c], <<"s172", "">>)
    /\ UNCHANGED FrameOfStep

\* Lines 172-173: the handler of the upsert returns None.
UpsertExcept(c) ==
    LogStepWith(c, "s172", "ERROR", "Shopify upsert exception",
                [inv[c] EXCEPT !.i = @ + 1, !.failed = @ + 1], <<"s206", "">>,
                inv[c], <<"s226", "">>)

\* Line 222.
SyncComplete(c) ==
    LogStep(c, "s222", "INFO", "Sync complete", <<"s223", "">>, <<"s226", "">>)

\* Line 223: notifier.send is called; line 224 follows its return.
SyncNotify(c) ==
    /\ inv[c].pc = "s223"
    /\ Move(c, [inv[c] EXCEPT !.site = "s223"], <<"send", "">>)
    /\ UNCHANGED FrameOfStep

\* Line 226: the handler of shopify_sync.
SyncFailure(c) ==
    LET r == [inv[c] EXCEPT !.handled = TRUE]
    IN  LogStepWith(c, "s226", "ERROR", "Shopify sync failure",
                    r, <<"s227", "">>, r, <<"done", "raised">>)

\* Line 227: notifier.send is called; line 228 follows its return.
SyncNotifyFailure(c) ==
    /\ inv[c].pc = "s227"
    /\ Move(c, [inv[c] EXCEPT !.site = "s227"], <<"send", "">>)
    /\ UNCHANGED FrameOfStep

\* -- the assignments _last_x = datetime.now() --------------------------------
\* Where the assignment of each task stands and what follows it.
StorePc(task) ==
    CASE task = "sync" -> "s220"
      [] task = "scan" -> "m236"
      [] task = "report" -> "d250"
AfterStore(task) ==
    CASE task = "sync" -> "s222"
      [] task = "scan" -> "m237"
      [] task = "report" -> "d251"

\* datetime.now() is evaluated (for market_scan after the sleep of line 235).
ReadNow(c) ==
    /\ Running(c)
    /\ inv[c].pc = StorePc(inv[c].task)
    /\ clock' = clock + 1
    /\ Move(c, [inv[c] EXCEPT !.now = clock + 1], <<"store", "">>)
    /\ UNCHANGED <<logstate, loggervars, lastvars, faults, cfgvars, webvars, ninv, lastwriter, schedvars>>

\* The value is stored in the global.
StoreNow(c) ==
    /\ inv[c].pc = "store"
    /\ StoreLast(inv[c].task, Datetime(inv[c].now))
    /\ lastwriter' = [lastwriter EXCEPT ![inv[c].task] = c]
    /\ Move(c, [inv[c] EXCEPT !.wrote = Datetime(inv[c].now)],
            <<AfterStore(inv[c].task), "">>)
    /\ UNCHANGED <<logstate, loggervars, faults, clock, cfgvars, webvars, ninv, schedvars>>

\* -- market_scan, lines 230-241 ------------------------------------------
ScanTaskStarted(c) ==
    LogStep(c, "m231", "INFO", "Market scan started",
            <<"m236", "">>, <<"done", "raised">>)

ScanTaskCompleted(c) ==
    LogStep(c, "m237", "INFO", "Market scan completed",
            <<"done", "ok_true">>, <<"m240", "">>)

ScanTaskFailure(c) ==
    LogStep(c, "m240", "ERROR", "Market scan failure",
            <<"done", "ok_false">>, <<"done", "raised">>)

\* -- daily_report with get_products, lines 148-158 and 243-255 ------------
ReportComposing(c) ==
    LogStep(c, "d244", "INFO", "Daily report composing",
            <<"d247", "">>, <<"done", "raised">>)

\* Line 247 without credentials: prod_count = 0.  Lines 248-249 follow.
ReportNoShop(c) ==
    /\ inv[c].pc = "d247"
    /\ ~shopify_ok
    /\ Move(c, [inv[c] EXCEPT !.site = "d249"], <<"send", "">>)
    /\ UNCHANGED FrameOfStep

\* Lines 153-155: get_products returns the list of the response.
ReportProducts(c) ==
    /\ inv[c].pc = "d247"
    /\ shopify_ok
    /\ Move(c, [inv[c] EXCEPT !.site = "d249"], <<"send", "">>)
    /\ UNCHANGED FrameOfStep

\* Line 155 with "products": null in the response: get_products returns
\* None and len() at line 247 raises TypeError.
ReportProductsNull(c) ==
    /\ inv[c].pc = "d247"
    /\ shopify_ok
    /\ Move(c, inv[c], <<"d254", "">>)
    /\ UNCHANGED FrameOfStep

\* Lines 153-154, 156: the request raises.
ReportGetRaises(c) ==
    /\ inv[c].pc = "d247"
    /\ shopify_ok
    /\ Move(c, inv[c], <<"d157", "">>)
    /\ UNCHANGED FrameOfStep

\* Lines 157-158: the handler of get_products returns [].
ReportGetExcept(c) ==
    LogStep(c, "d157", "ERROR", "Shopify get_products error",
            <<"d249", "">>, <<"d254", "">>)

\* Lines 248-249 after get_products returned [].
ReportNotify(c) ==
    /\ inv[c].pc = "d249"
    /\ Move(c, [inv[c] EXCEPT !.site = "d249"], <<"send", "">>)
    /\ UNCHANGED FrameOfStep

ReportSent(c) ==
    LogStep(c, "d251", "INFO", "Daily report sent",
            <<"done", "ok_true">>, <<"d254", "">>)

ReportFailure(c) ==
    LogStep(c, "d254", "ERROR", "Report failure",
            <<"done", "ok_false">>, <<"done", "raised">>)

ShopifySync(c) ==
    \/ SyncStarted(c) \/ ScanStarted(c) \/ ScanCompleted(c) \/ ScanError(c)
    \/ SyncNextItem(c)
    \/ UpsertSkipped(c) \/ UpsertCreated(c) \/ UpsertRejected(c)
    \/ UpsertPostRaises(c) \/ UpsertExcept(c)
    \/ SyncComplete(c) \/ SyncNotify(c) \/ SyncFailure(c) \/ SyncNotifyFailure(c)

MarketScan(c) ==
    \/ ScanTaskStarted(c) \/ ScanTaskCompleted(c) \/ ScanTaskFailure(c)

DailyReport(c) ==
    \/ ReportComposing(c) \/ ReportNoShop(c) \/ ReportProducts(c)
    \/ ReportProductsNull(c) \/ ReportGetRaises(c) \/ ReportGetExcept(c)
    \/ ReportNotify(c) \/ ReportSent(c) \/ ReportFailure(c)

Init ==
    /\ LOGS = <<>>
    /\ appended = <<>>
    /\ InitLoggers
    /\ InitGlobals
    /\ InitConfig
    /\ InitCallers
    /\ InitNoRequests
    /\ InitNoRunner

Next ==
    \/ \E c \in Callers : \E task \in Tasks : Invoke(c, task)
    \/ \E c \in Callers : ShopifySync(c)
    \/ \E c \in Callers : MarketScan(c)
    \/ \E c \in Callers : DailyReport(c)
    \/ \E c \in Callers : NotifierSend(c)
    \/ \E c \in Callers : ReadNow(c)
    \/ \E c \in Callers : StoreNow(c)

Spec == Init /\ [][Next]_vars

\* SpecSync: the calls of shopify_sync by its scheduler thread (line 268),
\* one after another, under every configuration.
NextSync ==
    \/ Invoke("runner", "sync")
    \/ ShopifySync("runner")
    \/ NotifierSend("runner")
    \/ ReadNow("runner")
    \/ StoreNow("runner")

SpecSync == Init /\ [][NextSync]_vars

\* SpecRace runs with the default settings.
InitRace ==
    /\ LOGS = <<>>
    /\ appended = <<>>
    /\ InitLoggers
    /\ InitGlobals
    /\ InitDefaults
    /\ InitCallers
    /\ InitNoRequests
    /\ InitNoRunner

NextRace ==
    \/ \E c \in Callers : \E task \in Tasks : InvokeOverlapping(c, task)
    \/ \E c \in Callers :
          \/ SyncStarted(c) \/ ScanStarted(c) \/ ScanCompleted(c) \/ ScanError(c)
          \/ SyncNextItem(c) \/ UpsertSkipped(c)
          \/ SyncComplete(c) \/ SyncNotify(c) \/ SyncFailure(c)
          \/ SyncNotifyFailure(c)
    \/ \E c \in Callers : MarketScan(c)
    \/ \E c \in Callers :
          \/ ReportComposing(c) \/ ReportNoShop(c) \/ ReportSent(c)
          \/ ReportFailure(c)
    \/ \E c \in Callers : SendFallback(c)
    \/ \E c \in Callers : ReadNow(c)
    \/ \E c \in Callers : StoreNow(c)

SpecRace == InitRace /\ [][NextRace]_vars

Failed(c) == Done(c) /\ inv[c].result = "ok_false"

\* C5: an invocation that returns ok:false leaves the last-run timestamp of
\* its task equal to the value it had when the invocation began.
C5_FailureKeepsTimestamp ==
    \A c \in Callers :
        Failed(c) => LastOf(inv[c].task) = inv[c].before

\* C6: an invocation that returns ok:false has appended exactly one ERROR
\* entry, the entries appended by the collaborators it called included.
C6_ExactlyOneError ==
    \A c \in Callers : Failed(c) => inv[c].errors = 1

\* C7: no invocation of a task ends with an exception that reaches its
\* caller; each returns ok:true or ok:false.
C7_NoExceptionEscapes ==
    \A c \in Callers : inv[c].result # "raised"

\* An invocation has left the timestamps of the other tasks as they were when
\* it began.
OtherTimestampsUnchanged ==
    \A c \in Callers :
        inv[c].task # "None" =>
            \A t \in Tasks \ {inv[c].task} : LastOf(t) = inv[c].frame[t]

\* C14: a last-run timestamp that was None when an invocation of its task
\* began is None after the invocation unless it returned ok:true, and no
\* invocation changes the timestamp of another task.
C14_OnlyOwnSuccessWrites ==
    /\ OtherTimestampsUnchanged
    /\ \A c \in Callers :
          (Done(c) /\ inv[c].result # "ok_true" /\ inv[c].before = None) =>
              LastOf(inv[c].task) = None

\* C16: a call of Notifier.send does not raise; when the notifier is not
\* enabled it has appended a NOTICE entry, and when the post got a status
\* other than 200 or raised, the entry it has appended is a WARN entry.
C16_NeverSilentlyDropped ==
    \A c \in Callers :
        LET x == inv[c].sent
        IN  /\ ~x.raised
            /\ x.case = "fallback" => x.level = "NOTICE"
            /\ (x.case \in {"rejected", "transport"} /\ inv[c].pc # "n125") =>
                  x.level = "WARN"

\* C20: an invocation of shopify_sync that returns ok:true has called the
\* upsert for every item of the scan (none when supplier_scan returned []),
\* counts in 'created' those that returned a product (0 when all failed or
\* the credentials are missing), has stored _last_sync and has sent the notification
\* of line 223; it returns ok:false only after its except block was entered,
\* and with no exception (no print that raises, no negative precision) it
\* returns ok:true whatever the upserts returned.
C20_SyncOutcomeIgnoresUpserts ==
    \A c \in Callers :
        (Done(c) /\ inv[c].task = "sync") =>
            /\ inv[c].result = "ok_true" =>
                  /\ inv[c].created + inv[c].failed \in {0, SampleItems}
                  /\ faults = 0 => inv[c].created + inv[c].failed = SampleItems
                  /\ ~shopify_ok => inv[c].created = 0
                  /\ inv[c].wrote # None
                  /\ _last_sync = inv[c].wrote
                  /\ inv[c].sent.case # "None"
                  /\ ~inv[c].handled
            /\ inv[c].result = "ok_false" => inv[c].handled
            /\ (faults = 0 /\ CURRENCY_DECIMALS >= 0) => inv[c].result = "ok_true"

C20_Witness ==
    \E c \in Callers :
        /\ Done(c)
        /\ inv[c].task = "sync"
        /\ shopify_ok
        /\ inv[c].failed = SampleItems
        /\ inv[c].created = 0
        /\ inv[c].result = "ok_true"
        /\ _last_sync # None

\* Both callers have been inside the same task at the same time and both
\* invocations have ended.
BothEnded == \A c \in Callers : Done(c) /\ inv[c].peer
RaceTask == inv[lastret].task

\* C9 as stated: after an overlapping manual and scheduled invocation of a
\* task have both returned ok:true, the timestamp holds the value written by
\* the invocation that returned last.
C9_LastReturnWins ==
    (BothEnded /\ \A c \in Callers : inv[c].result = "ok_true") =>
        LastOf(RaceTask) = inv[lastret].wrote

\* C9 amended: neither invocation is skipped (each that returns ok:true has
\* stored its own clock reading), and after both have ended the timestamp
\* holds the value stored by the invocation that executed its assignment
\* last, or its initial value when neither reached the assignment.
C9_LastWriteWins ==
    BothEnded =>
        /\ \A c \in Callers :
              inv[c].result = "ok_true" => inv[c].wrote # None
        /\ IF lastwriter[RaceTask] = "None"
           THEN LastOf(RaceTask) = None
           ELSE LastOf(RaceTask) = inv[lastwriter[RaceTask]].wrote

C9_Witness ==
    /\ BothEnded
    /\ \A c \in Callers : inv[c].result = "ok_true"
    /\ lastwriter[RaceTask] # lastret
    /\ LastOf(RaceTask) # inv[lastret].wrote

\* A timestamp changes from old to new without moving backward.
NotEarlier(old, new) ==
    \/ old = None
    \/ new # None /\ new[1] >= old[1]

\* C17: every step leaves each last-run timestamp unchanged or stores a clock
\* reading that is not earlier than the value it replaces, also when two
\* invocations of the task overlap.
C17_NeverBackward ==
    [][/\ NotEarlier(_last_sync, _last_sync')
       /\ NotEarlier(_last_scan, _last_scan')
       /\ NotEarlier(_last_report, _last_report')]_vars

\* ------------------------------------------------------------------------
\* SpecWeb: the session gate and the routes, src/main.py 307-313, 414-479
\* ------------------------------------------------------------------------
\* str.strip(): leading and trailing blanks are removed.
RECURSIVE LStrip(_)
LStrip(str) ==
    IF str # <<>> /\ Head(str) = " " THEN LStrip(Tail(str)) ELSE str
RECURSIVE RStrip(_)
RStrip(str) ==
    IF str # <<>> /\ str[Len(str)] = " "
    THEN RStrip(SubSeq(str, 1, Len(str) - 1)) ELSE str
Strip(str) == RStrip(LStrip(str))

\* Line 416: pin = (request.form.get("pin") or "").strip()
PinOf(field) == IF field = <<"None">> THEN <<>> ELSE Strip(field)

\* Line 309: session.get("auth_ok")
AuthOk(b) == "auth_ok" \in session[b]

TriggerRoutes == Tasks
GatedRoutes == TriggerRoutes \cup {"home"}

\* The request handler is free, and a further request arrives from browser
\* b: the history records what b was entitled to and the state it found.
Arrives(b) ==
    /\ nreq < MaxRequests
    /\ ~Running("handler")
    /\ req.outcome # "running"
    /\ nreq' = nreq + 1
Received(b, route, field, outcome) ==
    [s |-> b, route |-> route, field |-> field, auth |-> b \in entitled,
     outcome |-> outcome, frame |-> [t \in Tasks |-> LastOf(t)], ninv |-> ninv]

WebFrame == <<loggervars, lastvars, clock, cfgvars, schedvars>>

\* Lines 415-421, POST /login.  When the print of log() raises, the request
\* ends with status 500 and Flask saves the session (authOnError) or, when
\* it propagates exceptions, does not.
LoginPost(b, field) ==
    /\ Arrives(b)
    /\ IF PinOf(field) = DASHBOARD_PIN
       THEN /\ LogOne("INFO", "Login success")
            /\ entitled' = entitled \cup {b}
            /\ \E ok \in BOOLEAN, authOnError \in BOOLEAN :
                  /\ Printed(ok)
                  /\ ok => authOnError
                  /\ session' = [session EXCEPT ![b] =
                                    IF authOnError THEN @ \cup {"auth_ok"} ELSE @]
                  /\ req' = Received(b, "login", field,
                                     IF ok THEN "redirect_home" ELSE "error500")
       ELSE /\ LogOne("WARN", "Login failed")
            /\ \E ok \in BOOLEAN :
                  /\ Printed(ok)
                  /\ req' = Received(b, "login", field,
                                     IF ok THEN "login_form" ELSE "error500")
            /\ UNCHANGED <<session, entitled>>
    /\ UNCHANGED <<WebFrame, taskvars>>

\* Lines 414, 422: GET /login renders the form.
LoginGet(b) ==
    /\ Arrives(b)
    /\ req' = Received(b, "login_get", <<>>, "login_form")
    /\ UNCHANGED <<logstate, faults, session, entitled, WebFrame, taskvars>>

\* Lines 424-427: GET /logout.
LogoutKeepsSession(b) ==
    /\ Arrives(b)
    /\ entitled' = entitled \ {b}
    /\ req' = Received(b, "logout", <<>>, "redirect_login")
    /\ UNCHANGED <<logstate, faults, session, WebFrame, taskvars>>
Logout(b) ==
    /\ Arrives(b)
    /\ session' = [session EXCEPT ![b] = @ \ {"auth_ok"}]
    /\ entitled' = entitled \ {b}
    /\ req' = Received(b, "logout", <<>>, "redirect_login")
    /\ UNCHANGED <<logstate, faults, WebFrame, taskvars>>

\* Lines 308-311 and 431-450: GET /.
Home(b) ==
    /\ Arrives(b)
    /\ req' = Received(b, "home", <<>>,
                       IF AuthOk(b) THEN "dashboard" ELSE "redirect_login")
    /\ UNCHANGED <<logstate, faults, session, entitled, WebFrame, taskvars>>

\* Lines 452-461: GET /health is not gated.
Health(b) ==
    /\ Arrives(b)
    /\ req' = Received(b, "health", <<>>, "health")
    /\ UNCHANGED <<logstate, faults, session, entitled, WebFrame, taskvars>>

\* Lines 308-311 and 463-478: POST /sync, /scan, /report.  The wrapper of
\* require_login redirects, or the view calls the task on the handler thread.
Trigger(b, task) ==
    /\ Arrives(b)
    /\ IF AuthOk(b)
       THEN /\ inv' = Begun("handler", task)
            /\ ninv' = ninv + 1
            /\ req' = Received(b, task, <<>>, "running")
       ELSE /\ req' = Received(b, task, <<>>, "redirect_login")
            /\ UNCHANGED <<inv, ninv>>
    /\ UNCHANGED <<logstate, faults, session, entitled, WebFrame,
                   lastwriter, lastret>>

\* Lines 467, 473, 479: the task has returned and the view redirects to /;
\* an exception of the task ends the request with status 500.
TriggerReturns ==
    /\ req.outcome = "running"
    /\ Done("handler")
    /\ req' = [req EXCEPT !.outcome = IF inv["handler"].result = "raised"
                                      THEN "error500" ELSE "redirect_home"]
    /\ UNCHANGED <<logstate, faults, session, entitled, nreq, WebFrame, taskvars>>

\* SpecWeb runs with the default settings and without scheduler threads.
InitWeb ==
    /\ LOGS = <<>>
    /\ appended = <<>>
    /\ InitLoggers
    /\ InitGlobals
    /\ InitDefaults
    /\ InitCallers
    /\ InitNoRequests
    /\ InitNoRunner

HandlerTask(c) ==
    \/ SyncStarted(c) \/ ScanStarted(c) \/ ScanCompleted(c) \/ ScanError(c)
    \/ SyncNextItem(c) \/ UpsertSkipped(c)
    \/ SyncComplete(c) \/ SyncNotify(c) \/ SyncFailure(c)
    \/ SyncNotifyFailure(c)
    \/ MarketScan(c)
    \/ ReportComposing(c) \/ ReportNoShop(c) \/ ReportSent(c)
    \/ ReportFailure(c)
    \/ SendFallback(c)
    \/ ReadNow(c)
    \/ StoreNow(c)

NextWeb ==
    \/ \E b \in Browsers : \E field \in PinFields : LoginPost(b, field)
    \/ \E b \in Browsers : LoginGet(b)
    \/ \E b \in Browsers : Logout(b)
    \/ \E b \in Browsers : Home(b)
    \/ \E b \in Browsers : Health(b)
    \/ \E b \in Browsers : \E task \in Tasks : Trigger(b, task)
    \/ TriggerReturns
    \/ HandlerTask("handler")

SpecWeb == InitWeb /\ [][NextWeb]_vars

Granted == {"running", "redirect_home", "error500", "dashboard"}

\* C15: a session holds auth_ok only when its browser has posted the PIN to
\* /login and has not requested /logout since; a request to /sync, /scan,
\* /report or / from a browser in that state runs its task or renders the
\* dashboard, and from any other browser it is redirected to the login page,
\* starts no task and changes no last-run timestamp; a POST /login whose pin
\* is not the PIN leaves the session as it was.
C15_AccessControl ==
    /\ \A b \in Browsers : AuthOk(b) => b \in entitled
    /\ ninv > req.ninv => (req.route \in TriggerRoutes /\ req.auth)
    /\ req.route \in GatedRoutes =>
          /\ req.outcome \in Granted => req.auth
          /\ ~req.auth =>
                /\ req.outcome = "redirect_login"
                /\ ninv = req.ninv
                /\ \A t \in Tasks : LastOf(t) = req.frame[t]
    /\ (req.route = "login" /\ PinOf(req.field) # DASHBOARD_PIN) =>
          /\ AuthOk(req.s) => req.auth
          /\ req.outcome \in {"login_form", "error500"}

C15_Witness ==
    /\ req.route = "scan"
    /\ req.auth
    /\ req.outcome = "redirect_home"
    /\ _last_scan # None
    /\ \E b \in Browsers : b # req.s /\ ~AuthOk(b)
    /\ nreq = 2

\* ------------------------------------------------------------------------
\* SpecSched: the scheduler threads, src/main.py 260-295
\* ------------------------------------------------------------------------
DaySeconds == 86400
SleepStep == 5
DailyStep == 30
MinInterval == 300

\* Line 264: secs = max(300, int(hours * 3600)); hours is an integer, read
\* by _as_int at lines 75-76.
IntervalSecsNoFloor(hours) == hours * 3600
IntervalSecs(hours) == Max(MinInterval, hours * 3600)

\* Lines 281-283: today's hour:minute:00, or tomorrow's when that is not
\* after now.
NextRunNotStrict(now, hour, minute) ==
    LET today == (now \div DaySeconds) * DaySeconds + hour * 3600 + minute * 60
    IN  IF today < now THEN today + DaySeconds ELSE today
NextRun(now, hour, minute) ==
    LET today == (now \div DaySeconds) * DaySeconds + hour * 3600 + minute * 60
    IN  IF today <= now THEN today + DaySeconds ELSE today

\* The runner after one more of its steps.
Stepped(r) == [r EXCEPT !.post = IF _stop_flag THEN @ + 1 ELSE @]

\* The runner after a call of time.sleep(n).
Slept(r, n) ==
    [r EXCEPT !.slept = @ + n,
              !.late = IF _stop_flag THEN @ + 1 ELSE @,
              !.lateSecs = IF _stop_flag THEN @ + n ELSE @]

RunnerFrame == <<loggervars, lastvars, clock, cfgvars, webvars, taskvars>>

\* A call of log() by the runner: it continues at onOk, or the exception of
\* print leaves the thread's function and the thread ends (onRaise).
RunnerLog(at, level, msg, onOk, onRaise) ==
    /\ run.pc = at
    /\ LogOne(level, msg)
    /\ \E ok \in BOOLEAN :
          /\ Printed(ok)
          /\ run' = [Stepped(run) EXCEPT !.pc = IF ok THEN onOk ELSE onRaise]
    /\ UNCHANGED <<_stop_flag, wall, RunnerFrame>>

\* A step of the runner that touches nothing but its locals.
RunnerStep(at, r) ==
    /\ run.pc = at
    /\ run' = Stepped(r)
    /\ UNCHANGED <<logstate, faults, _stop_flag, wall, RunnerFrame>>

\* -- every(hours, fn, name), lines 262-275 --------------------------------
\* Lines 264-265.
EveryStart ==
    /\ run.kind = "every"
    /\ run.pc = "start"
    /\ LogOne("INFO", <<"Scheduler started", run.name>>)
    /\ \E ok \in BOOLEAN :
          /\ Printed(ok)
          /\ run' = [Stepped(run) EXCEPT !.secs = IntervalSecs(run.hours),
                                         !.pc = IF ok THEN "e266" ELSE "died"]
    /\ UNCHANGED <<_stop_flag, wall, RunnerFrame>>

\* Line 266: while not _stop_flag
EveryWhileNever ==
    RunnerStep("e266", [run EXCEPT !.pc = "e268"])
EveryWhile ==
    RunnerStep("e266", [run EXCEPT !.pc = IF _stop_flag THEN "exit" ELSE "e268"])

\* Line 268: fn() returns.
EveryCallReturns ==
    /\ run.calls < MaxRunnerCalls
    /\ RunnerStep("e268", [run EXCEPT !.pc = "e272", !.k = 0, !.slept = 0,
                                      !.calls = @ + 1])

\* Lines 268-269: fn() raises.
EveryCallRaises ==
    /\ run.calls < MaxRunnerCalls
    /\ RunnerStep("e268", [run EXCEPT !.pc = "e270", !.k = 0, !.slept = 0,
                                      !.calls = @ + 1])

\* Line 270.
EveryCrashLogged ==
    RunnerLog("e270", "ERROR", <<"Task crashed", run.name>>, "e272", "died")

\* Line 272: for _ in range(secs // 5)
EveryForOneShort ==
    RunnerStep("e272", [run EXCEPT !.pc = IF run.k < run.secs \div SleepStep - 1
                                          THEN "e273" ELSE "e266"])
EveryFor ==
    RunnerStep("e272", [run EXCEPT !.pc = IF run.k < run.secs \div SleepStep
                                          THEN "e273" ELSE "e266"])

\* Lines 273-274: if _stop_flag: break
EveryCheckStopNever ==
    RunnerStep("e273", [run EXCEPT !.pc = "e275"])
EveryCheckStop ==
    RunnerStep("e273", [run EXCEPT !.pc = IF _stop_flag THEN "e266" ELSE "e275"])

\* Line 275: time.sleep(5)
EverySleep ==
    /\ run.pc = "e275"
    /\ run' = Stepped(Slept([run EXCEPT !.pc = "e272", !.k = @ + 1], SleepStep))
    /\ wall' = wall + SleepStep
    /\ UNCHANGED <<logstate, faults, _stop_flag, RunnerFrame>>

\* -- run_daily_at(hour, minute, fn, name), lines 277-295 ------------------
\* Line 278.
DailyStart ==
    /\ run.kind = "daily"
    /\ RunnerLog("start", "INFO", <<"Scheduler started", run.name>>, "d279", "died")

\* Line 279: while not _stop_flag
DailyWhile ==
    RunnerStep("d279", [run EXCEPT !.pc = IF _stop_flag THEN "exit" ELSE "d280"])

\* Lines 280-284.
DailyComputeNoRoll ==
    LET today == (wall \div DaySeconds) * DaySeconds
                     + run.hour * 3600 + run.minute * 60
    IN  RunnerStep("d280",
            [run EXCEPT !.pc = "d286", !.now = wall, !.slept = 0,
                        !.next_run = today,
                        !.sleep_seconds = today - wall])
DailyCompute ==
    RunnerStep("d280",
        [run EXCEPT !.pc = "d286", !.now = wall, !.slept = 0,
                    !.next_run = NextRun(wall, run.hour, run.minute),
                    !.sleep_seconds = NextRun(wall, run.hour, run.minute) - wall])

\* Line 286: while sleep_seconds > 0 and not _stop_flag
DailyWaitTest ==
    RunnerStep("d286", [run EXCEPT !.pc = IF run.sleep_seconds > 0 /\ ~_stop_flag
                                          THEN "d288" ELSE "d290"])

\* Lines 287-289.
DailySleep ==
    /\ run.pc = "d288"
    /\ LET step == Min(DailyStep, run.sleep_seconds)
       IN  /\ run' = Stepped(Slept([run EXCEPT !.pc = "d286",
                                               !.sleep_seconds = @ - step], step))
           /\ wall' = wall + step
    /\ UNCHANGED <<logstate, faults, _stop_flag, RunnerFrame>>

\* Lines 290-291: if _stop_flag: break
DailyCheckStopNever ==
    RunnerStep("d290", [run EXCEPT !.pc = "d293"])
DailyCheckStop ==
    RunnerStep("d290", [run EXCEPT !.pc = IF _stop_flag THEN "exit" ELSE "d293"])

\* Line 293: fn() returns.
DailyCallReturns ==
    /\ run.calls < MaxRunnerCalls
    /\ RunnerStep("d293", [run EXCEPT !.pc = "d279", !.calls = @ + 1,
                                      !.fired = run.next_run])

\* Lines 293-294: fn() raises.
DailyCallRaises ==
    /\ run.calls < MaxRunnerCalls
    /\ RunnerStep("d293", [run EXCEPT !.pc = "d295", !.calls = @ + 1,
                                      !.fired = run.next_run])

\* Line 295.
DailyCrashLogged ==
    RunnerLog("d295", "ERROR", <<"Task crashed", run.name>>, "d279", "died")

\* -- the environment ------------------------------------------------------
\* Something sets _stop_flag (line 260 is its only assignment in the source).
SetStop ==
    /\ ~_stop_flag
    /\ run.pc \notin {"exit", "died"}
    /\ _stop_flag' = TRUE
    /\ run' = [run EXCEPT !.stopat = run.pc, !.callsAtStop = run.calls]
    /\ UNCHANGED <<logstate, faults, wall, RunnerFrame>>

\* The threads of lines 298-300, one at a time: an interval runner with a
\* configured number of hours, or the daily runner with its hour and minute,
\* started at some time of day 0.
InitSched ==
    /\ LOGS = <<>>
    /\ appended = <<>>
    /\ InitLoggers
    /\ InitGlobals
    /\ InitDefaults
    /\ InitCallers
    /\ InitNoRequests
    /\ _stop_flag = FALSE
    /\ \/ /\ \E hours \in IntervalHours :
                run = NewRunner("every", "sync", hours, 0, 0)
          /\ wall = 0
       \/ /\ \E hm \in ReportTimes :
                run = NewRunner("daily", "report", 0, hm[1], hm[2])
          /\ wall \in StartTimes

NextSched ==
    \/ EveryStart
    \/ EveryWhile
    \/ EveryCallReturns
    \/ EveryCallRaises
    \/ EveryCrashLogged
    \/ EveryFor
    \/ EveryCheckStop
    \/ EverySleep
    \/ DailyStart
    \/ DailyWhile
    \/ DailyCompute
    \/ DailyWaitTest
    \/ DailySleep
    \/ DailyCheckStop
    \/ DailyCallReturns
    \/ DailyCallRaises
    \/ DailyCrashLogged
    \/ SetStop

SpecSched == InitSched /\ [][NextSched]_vars

\* Where a runner is between two steps of its sleep.
SleepingPcs == {"e272", "e273", "e275", "d286", "d288"}
CallPcs == {"e268", "e270", "d293", "d295"}
Increment == IF run.kind = "every" THEN SleepStep ELSE DailyStep

\* C3: once _stop_flag is true a runner completes at most one further sleep
\* step, of at most 5 seconds in every() and 30 seconds in run_daily_at();
\* a runner that was sleeping or waiting when the flag was set then leaves
\* its loop, within four steps and without calling the task.
C3_StopWithinOneIncrement ==
    /\ run.late <= 1
    /\ run.lateSecs <= Increment
    /\ (_stop_flag /\ run.stopat \in SleepingPcs) =>
          /\ run.pc \notin CallPcs
          /\ run.calls = run.callsAtStop
          /\ run.post <= 4
          /\ run.post = 4 => run.pc = "exit"

C3_Witness ==
    /\ run.kind = "every"
    /\ run.stopat = "e275"
    /\ run.late = 1
    /\ run.lateSecs = SleepStep
    /\ run.k < run.secs \div SleepStep
    /\ run.pc = "exit"

\* C4: when _stop_flag becomes true during the wait of run_daily_at() for
\* next_run, the runner leaves its loop without calling the task.
C4_StopDuringWaitSkipsTask ==
    (run.kind = "daily" /\ _stop_flag /\ run.stopat \in {"d286", "d288"}) =>
        /\ run.pc \notin CallPcs
        /\ run.calls = run.callsAtStop

C4_Witness ==
    /\ run.kind = "daily"
    /\ run.stopat \in {"d286", "d288"}
    /\ run.sleep_seconds > 0
    /\ run.pc = "exit"

\* C8: a runner whose task has raised stays in its loop: its thread does not
\* end with an exception after a call of the task, and its loop is left only
\* when _stop_flag is true.
C8_TaskFailureNonFatal ==
    /\ run.pc = "died" => run.calls = 0
    /\ run.pc = "exit" => _stop_flag

\* C10: for hours * 3600 <= 300 the interval runner has slept exactly 300
\* seconds between the end of a call of the task and the next call.
C10_FloorOfFiveMinutes ==
    (run.kind = "every" /\ run.hours * 3600 <= 300
        /\ run.pc = "e268" /\ run.calls >= 1) =>
        run.slept = 300

C10_Witness ==
    /\ run.kind = "every"
    /\ run.hours <= 0
    /\ run.pc = "e268"
    /\ run.calls >= 1
    /\ run.slept = 300

WaitingPcs == {"d286", "d288", "d290", "d293"}
TargetOfDay == run.hour * 3600 + run.minute * 60

\* C12: the next_run computed by run_daily_at() is the first instant
\* strictly after now whose time of day is hour:minute:00, so it lies at most
\* one day after now, on the next day when today's target is not after now;
\* and the task is not called before that instant.
C12_NextRunIsNextOccurrence ==
    (run.kind = "daily" /\ run.pc \in WaitingPcs) =>
        /\ run.next_run % DaySeconds = TargetOfDay
        /\ run.next_run > run.now
        /\ run.next_run - run.now <= DaySeconds
        /\ run.now % DaySeconds >= TargetOfDay =>
              run.next_run \div DaySeconds = run.now \div DaySeconds + 1
        /\ run.now % DaySeconds < TargetOfDay =>
              run.next_run \div DaySeconds = run.now \div DaySeconds
        /\ run.pc = "d293" => wall >= run.next_run

C12_Witness ==
    /\ run.kind = "daily"
    /\ run.pc = "d293"
    /\ run.calls = 0
    /\ run.now % DaySeconds >= TargetOfDay
    /\ run.next_run = DaySeconds + TargetOfDay
    /\ wall = run.next_run

\* C13: run_daily_at() computes a wait that is greater than zero before each
\* call of the task, and each call is for a next_run on a later calendar day
\* than the call before it, also when the task returns at once.
C13_OncePerTarget ==
    (run.kind = "daily" /\ run.pc \in WaitingPcs) =>
        /\ run.next_run - run.now > 0
        /\ run.calls >= 1 =>
              /\ run.next_run > run.fired
              /\ run.next_run \div DaySeconds > run.fired \div DaySeconds

C13_Witness ==
    /\ run.kind = "daily"
    /\ run.pc = "d293"
    /\ run.calls >= 1
    /\ run.now = run.fired
    /\ run.next_run = run.fired + DaySeconds

\* C19 as stated: every() starts no call of its task once _stop_flag is
\* true, also when the flag is set between the test of line 266 and the call.
C19_NoCallOnceStopped ==
    (run.kind = "every" /\ _stop_flag) => run.calls = run.callsAtStop

\* C19 amended: every() starts a call only when its latest test of line 266
\* read the flag as false: once _stop_flag is true it starts at most one
\* more call, and that one only when the flag was set between the test and
\* the call; a runner that finds the flag true at its first test calls the
\* task zero times.
C19_NoCallAfterObservedStop ==
    (run.kind = "every" /\ _stop_flag) =>
        /\ run.pc = "e268" => run.stopat = "e268"
        /\ run.calls - run.callsAtStop <= (IF run.stopat = "e268" THEN 1 ELSE 0)
        /\ run.stopat = "start" => run.calls = 0

C19_Witness ==
    /\ run.kind = "every"
    /\ _stop_flag
    /\ run.stopat = "e268"
    /\ run.calls = run.callsAtStop + 1
    /\ run.pc = "exit"

====
